---- MODULE Spec2Model ----
(***************************************************************************)
(* The chat session of the Bitcoin chatbot front end (the tour-capable     *)
(* App component): conversation history, the three busy flags, the durable *)
(* copy in localStorage, and the two asynchronous handlers                 *)
(* handleSendMessage and handleStartTour, cut into one step per            *)
(* suspension point (await).                                               *)
(*                                                                         *)
(* State updates made by one synchronous stretch of a handler are applied  *)
(* together (React batches them into one render), and the save effect of   *)
(* that render is part of the same step.                                   *)
(***************************************************************************)
EXTENDS Integers, Sequences, FiniteSets, TLC

VARIABLES
  messages,      \* useState: the conversation history
  input,         \* useState: content of the input box, a sequence of characters
  isLoading,     \* useState: an ask is running
  isBotTyping,   \* useState: the typing indicator
  isTouring,     \* useState: a tour is running
  localStorage,  \* the value stored under LOCAL_STORAGE_KEY
  VITE_API_URL,  \* import.meta.env.VITE_API_URL, fixed at build time
  quota,         \* the number of entries localStorage has room for
  askPc,         \* where a suspended handleSendMessage waits ("idle": none)
  askRequest,    \* arguments of the fetch call handleSendMessage has in flight
  askResponse,   \* the Response object handleSendMessage holds
  tourPc,        \* where a suspended handleStartTour waits ("idle": none)
  tourRequest,   \* arguments of the fetch call handleStartTour has in flight
  tourResponse,  \* the Response object handleStartTour holds
  tourScript,    \* data.tour, the array the tour loop iterates over
  tourMessages,  \* the script elements the tour loop has not reached yet
  timer,         \* milliseconds of the pending delay(ms)
  h0,            \* the messages binding handleSendMessage closed over, and
  userQuestion,  \* its userQuestion; both forgotten once another handler acts
  last,          \* the handler step taken last and the branch it took
  otherTab       \* the history of a second session open on the same storage

vars == <<messages, input, isLoading, isBotTyping, isTouring, localStorage,
          VITE_API_URL, quota, otherTab, askPc, askRequest, askResponse, tourPc, tourRequest,
          tourResponse, tourScript, tourMessages, timer, h0, userQuestion, last>>

----------------------------------------------------------------------------
(* Bounds *)

MaxMessages == 4

----------------------------------------------------------------------------
(* JavaScript values *)

Undefined == [k |-> "undefined"]
Null == [k |-> "null"]
Str(s) == [k |-> "string", v |-> s]
Arr(s) == [k |-> "array", v |-> s]
Obj(a, e, t) == [k |-> "object", answer |-> a, error |-> e, tour |-> t]

\* a property read on a value: throws on null and undefined
Throws(v) == v.k \in {"null", "undefined"}

\* (variant: a read of a property the body never has)
Get_WrongName(v, f) == Undefined

Get(v, f) ==
  IF v.k = "object"
    THEN (CASE f = "answer" -> v.answer [] f = "error" -> v.error [] f = "tour" -> v.tour)
    ELSE Undefined

Truthy(v) ==
  CASE v.k = "undefined" -> FALSE
    [] v.k = "null" -> FALSE
    [] v.k = "string" -> v.v # ""
    [] OTHER -> TRUE

\* a || b
OrElse(a, b) == IF Truthy(a) THEN a ELSE b

\* string conversion of template literals and of the + operator
ToStr(v) ==
  CASE v.k = "undefined" -> "undefined"
    [] v.k = "null" -> "null"
    [] v.k = "string" -> v.v

\* a + "suffix"
Plus(a, suffix) == ToStr(a) \o suffix

IsArray(v) == v.k = "array"

\* String.prototype.trim on a sequence of characters
WhiteSpace == {" ", "\t", "\n"}

RECURSIVE TrimStart(_)
TrimStart(s) ==
  IF s # <<>> /\ Head(s) \in WhiteSpace THEN TrimStart(Tail(s)) ELSE s

RECURSIVE TrimEnd(_)
TrimEnd(s) ==
  IF s # <<>> /\ s[Len(s)] \in WhiteSpace THEN TrimEnd(SubSeq(s, 1, Len(s) - 1)) ELSE s

RECURSIVE Join(_)
Join(s) == IF s = <<>> THEN "" ELSE Head(s) \o Join(Tail(s))

trim(s) == Join(TrimEnd(TrimStart(s)))

----------------------------------------------------------------------------
(* Conversation entries *)

Entry(type, text) == [type |-> type, text |-> text]

\* (variant: a serializer that also drops a property whose value is null)
StringifyEntry_DropsNull(e) ==
  IF "text" \in DOMAIN e /\ e.text \in {Undefined, Null} THEN [type |-> e.type] ELSE e

\* JSON.stringify drops a property whose value is undefined
StringifyEntry(e) ==
  IF "text" \in DOMAIN e /\ e.text = Undefined THEN [type |-> e.type] ELSE e

StringifyMessages(msgs) == [i \in 1..Len(msgs) |-> StringifyEntry(msgs[i])]

----------------------------------------------------------------------------
(* localStorage under LOCAL_STORAGE_KEY: missing, or a string given by    *)
(* what JSON.parse makes of it.                                           *)

Missing == [k |-> "missing"]
EmptyString == [k |-> "item", json |-> [k |-> "empty"]]
Item(json) == [k |-> "item", json |-> json]
Unparseable(msg) == [k |-> "unparseable", message |-> msg]

Stringify(msgs) == Item(Arr(StringifyMessages(msgs)))

\* what the messages initializer finds under the key
LoadCase(stored) ==
  IF stored = Missing THEN "missing"
  ELSE IF stored = EmptyString THEN "empty string"
  ELSE IF stored.json.k = "unparseable" THEN "unparseable"
  ELSE IF IsArray(stored.json) THEN "array"
  ELSE "not an array"

\* (variant: a catch block and an else branch that only log)
LoadMessages_KeepsCorrupt(stored) ==
  IF stored = Missing \/ stored = EmptyString
    THEN <<(<<>>), stored>>
    ELSE IF stored.json.k = "unparseable"
      THEN <<(<<>>), stored>>
      ELSE IF IsArray(stored.json)
        THEN <<stored.json.v, stored>>
        ELSE <<(<<>>), stored>>

\* (variant: an empty stored array treated like a corrupt value)
LoadMessages_PurgesEmpty(stored) ==
  IF stored = Missing \/ stored = EmptyString
    THEN <<(<<>>), stored>>
    ELSE IF stored.json.k = "unparseable"
      THEN <<(<<>>), Missing>>
      ELSE IF IsArray(stored.json) /\ stored.json.v # <<>>
        THEN <<stored.json.v, stored>>
        ELSE <<(<<>>), Missing>>

\* (variant: an initializer that also wants a type and a text in every
\* element)
LoadMessages_ValidatesEntries(stored) ==
  IF stored = Missing \/ stored = EmptyString
    THEN <<(<<>>), stored>>
    ELSE IF stored.json.k = "unparseable"
      THEN <<(<<>>), Missing>>
      ELSE IF /\ IsArray(stored.json)
              /\ \A i \in 1..Len(stored.json.v) :
                    {"type", "text"} \subseteq DOMAIN stored.json.v[i]
        THEN <<stored.json.v, stored>>
        ELSE <<(<<>>), Missing>>

\* the messages initializer: <<history, storage afterwards>>
LoadMessages(stored) ==
  IF stored = Missing \/ stored = EmptyString
    THEN <<(<<>>), stored>>
    ELSE IF stored.json.k = "unparseable"
      THEN <<(<<>>), Missing>>
      ELSE IF IsArray(stored.json)
        THEN <<stored.json.v, stored>>
        ELSE <<(<<>>), Missing>>

\* (variant: an effect that depends on nothing and so runs only at mount)
SaveEffect_MountOnly(msgs, stored) ==
  IF msgs = <<>> /\ Len(msgs) <= quota THEN Stringify(msgs) ELSE stored

\* (variant: an effect that appends the history to what the key holds)
SaveEffect_Merges(msgs, stored) ==
  IF Len(msgs) <= quota
    THEN Item(Arr(LoadMessages(stored)[1] \o StringifyMessages(msgs)))
    ELSE stored

\* the save effect: setItem either writes, or throws QuotaExceededError,
\* which is caught and logged
SaveEffect(msgs, stored) ==
  IF Len(msgs) <= quota THEN Stringify(msgs) ELSE stored

----------------------------------------------------------------------------
(* The remote service *)

NoRequest == [k |-> "none"]
NoResponse == [k |-> "none"]

Ok(status) == status >= 200 /\ status <= 299

Response(status, statusText, body) ==
  [k |-> "response", ok |-> Ok(status), status |-> status,
   statusText |-> statusText, body |-> body]

\* fetch rejects: the request never completed
TransportErrors == {"Failed to fetch", "Load failed"}

SyntaxErrorMessage == "Unexpected token < in JSON at position 0"
TypeErrorMessage(f) == "Cannot read properties of null (reading '" \o f \o "')"

StatusLines == {<<200, "OK">>, <<500, "Internal Server Error">>, <<500, "">>}

\* bodies: not JSON, null, {}, and with the field the handler reads for the
\* status ({answer} when ok, {error} when not)
AskBodies ==
  {Unparseable(SyntaxErrorMessage), Null}
    \cup {Obj(a, e, Undefined) : a \in {Undefined, Str("A block is...")},
                                e \in {Undefined, Str(""), Str("overloaded")}}

BodyFits(status, body) ==
  body.k = "object" =>
    IF Ok(status) THEN body.error = Undefined ELSE body.answer = Undefined

AskResponses ==
  UNION {{Response(sl[1], sl[2], b) : b \in {x \in AskBodies : BodyFits(sl[1], x)}}
           : sl \in StatusLines}

Questions == {<<>>, <<" ", "\t">>, <<" ", "h", "i", " ">>, <<"W", "h", "y", "?">>}

BaseUrls == {Undefined, Str(""), Str("http://localhost:5000")}

\* room for nothing at all (every setItem throws), for a short history,
\* for any
Quotas == {-1, 2, 100}

InitialStorage ==
  {Missing, EmptyString, Item(Unparseable(SyntaxErrorMessage)),
   Item(Obj(Undefined, Undefined, Undefined)),
   Item(Arr(<<>>)),
   Item(Arr(<<Entry("user", Str("hi")), Entry("bot", Str("A block is..."))>>))}

----------------------------------------------------------------------------
(* Construction: the messages initializer, then the first run of the save *)
(* effect.                                                                *)

askVars == <<askPc, askRequest, askResponse>>
tourVars == <<tourPc, tourRequest, tourResponse, tourScript, tourMessages, timer>>

Step(op, branch) == [op |-> op, branch |-> branch]

\* the step that constructs App: what it found under the key, and the
\* handler that ran last in the session before
Mounted(found, before) == [op |-> "App", branch |-> found, after |-> before]

\* (variant: a save effect that waits for the first change of the history)
Start_NoSaveAtMount(quotas, urls, storages) ==
  /\ quota \in quotas
  /\ \E stored \in storages :
       /\ messages = LoadMessages(stored)[1]
       /\ localStorage = LoadMessages(stored)[2]
       /\ last = Mounted(LoadCase(stored), "none")
  /\ input = <<>>
  /\ isLoading = FALSE
  /\ isBotTyping = FALSE
  /\ isTouring = FALSE
  /\ VITE_API_URL \in urls
  /\ askPc = "idle"
  /\ askRequest = NoRequest
  /\ askResponse = NoResponse
  /\ tourPc = "idle"
  /\ tourRequest = NoRequest
  /\ tourResponse = NoResponse
  /\ tourScript = <<>>
  /\ tourMessages = <<>>
  /\ timer = 0
  /\ h0 = <<>>
  /\ userQuestion = ""

Start(quotas, urls, storages) ==
  /\ quota \in quotas
  /\ \E stored \in storages :
       /\ messages = LoadMessages(stored)[1]
       /\ localStorage = SaveEffect(messages, LoadMessages(stored)[2])
       /\ last = Mounted(LoadCase(stored), "none")
  /\ input = <<>>
  /\ isLoading = FALSE
  /\ isBotTyping = FALSE
  /\ isTouring = FALSE
  /\ VITE_API_URL \in urls
  /\ askPc = "idle"
  /\ askRequest = NoRequest
  /\ askResponse = NoResponse
  /\ tourPc = "idle"
  /\ tourRequest = NoRequest
  /\ tourResponse = NoResponse
  /\ tourScript = <<>>
  /\ tourMessages = <<>>
  /\ timer = 0
  /\ h0 = <<>>
  /\ userQuestion = ""

\* one session, on any build and any storage
Init ==
  /\ Start(Quotas, BaseUrls, InitialStorage)
  /\ otherTab = <<>>

\* a new session on the same storage (the page is opened again): App is
\* constructed afresh, whatever the session before was doing
App ==
  /\ messages' = LoadMessages(localStorage)[1]
  /\ localStorage' = SaveEffect(messages', LoadMessages(localStorage)[2])
  /\ last' = Mounted(LoadCase(localStorage), last.op)
  /\ input' = <<>>
  /\ isLoading' = FALSE
  /\ isBotTyping' = FALSE
  /\ isTouring' = FALSE
  /\ askPc' = "idle"
  /\ askRequest' = NoRequest
  /\ askResponse' = NoResponse
  /\ tourPc' = "idle"
  /\ tourRequest' = NoRequest
  /\ tourResponse' = NoResponse
  /\ tourScript' = <<>>
  /\ tourMessages' = <<>>
  /\ timer' = 0
  /\ h0' = <<>>
  /\ userQuestion' = ""
  /\ UNCHANGED <<VITE_API_URL, quota, otherTab>>

----------------------------------------------------------------------------
(* The input box and the Clear History button; both controls are disabled *)
(* while isLoading or isTouring.                                          *)

\* (variant: the controls as they were before the tour existed)
Disabled_LoadingOnly == isLoading

Disabled == isLoading \/ isTouring

handleInputChange(value) ==
  /\ ~Disabled
  /\ input' = value
  /\ h0' = <<>>
  /\ userQuestion' = ""
  /\ last' = Step("handleInputChange", "set")
  /\ UNCHANGED <<messages, isLoading, isBotTyping, isTouring, localStorage,
                 VITE_API_URL, quota, otherTab, askVars, tourVars>>

\* (variant: a save effect that tells the user when the write failed)
handleClearHistory_ReportsSaveFailure ==
  /\ ~Disabled
  /\ messages' = IF 0 <= quota THEN <<>>
                 ELSE <<Entry("error", Str("Error saving chat history."))>>
  /\ localStorage' = SaveEffect(messages', localStorage)
  /\ h0' = <<>>
  /\ userQuestion' = ""
  /\ tourScript' = <<>>
  /\ last' = Step("handleClearHistory", "cleared")
  /\ UNCHANGED <<input, isLoading, isBotTyping, isTouring, VITE_API_URL, quota, otherTab,
                 askVars, tourPc, tourRequest, tourResponse, tourMessages, timer>>

\* (variant: a Clear History button that is never disabled)
handleClearHistory_NeverDisabled ==
  /\ messages' = <<>>
  /\ localStorage' = SaveEffect(messages', localStorage)
  /\ h0' = <<>>
  /\ userQuestion' = ""
  /\ tourScript' = <<>>
  /\ last' = Step("handleClearHistory", "cleared")
  /\ UNCHANGED <<input, isLoading, isBotTyping, isTouring, VITE_API_URL, quota, otherTab,
                 askVars, tourPc, tourRequest, tourResponse, tourMessages, timer>>

handleClearHistory ==
  /\ ~Disabled
  /\ messages' = <<>>
  /\ localStorage' = SaveEffect(messages', localStorage)
  /\ h0' = <<>>
  /\ userQuestion' = ""
  /\ tourScript' = <<>>
  /\ last' = Step("handleClearHistory", "cleared")
  /\ UNCHANGED <<input, isLoading, isBotTyping, isTouring, VITE_API_URL, quota, otherTab,
                 askVars, tourPc, tourRequest, tourResponse, tourMessages, timer>>

----------------------------------------------------------------------------
(* handleSendMessage *)

\* (variant: a guard that only tests the question)
SendRejected_OnlyEmpty(question) == question = ""

\* (variant: the guard as it was before the tour existed)
SendRejected_NoTourTest(question) == question = "" \/ isLoading

\* (variant: a guard that lets an empty question through)
SendRejected_NoEmptyTest(question) == isLoading \/ isTouring

\* the guard of handleSendMessage
SendRejected(question) == question = "" \/ isLoading \/ isTouring

\* the endpoint test of both handlers
NotConfigured(apiUrl, suffix) == apiUrl = "" \/ apiUrl = suffix

\* (variant: a request that carries the history without the new entry)
AskRequest_WithoutQuestion(apiUrl, question, historyForApi) ==
  [k |-> "request", url |-> apiUrl, method |-> "POST",
   body |-> [question |-> question,
             history |-> StringifyMessages(SubSeq(historyForApi, 1,
                                                    Len(historyForApi) - 1))]]

AskRequest(apiUrl, question, historyForApi) ==
  [k |-> "request", url |-> apiUrl, method |-> "POST",
   body |-> [question |-> question, history |-> StringifyMessages(historyForApi)]]

\* the synchronous part: from the submit event to the first await
handleSendMessage ==
  LET question == trim(input)
      userMessage == Entry("user", Str(question))
      apiUrl == Plus(VITE_API_URL, "/ask")
      errorMsg == "API URL is not configured."
  IN
  IF SendRejected(question)
    THEN /\ last' = Step("handleSendMessage", "rejected")
         /\ UNCHANGED <<messages, input, isLoading, isBotTyping, isTouring,
                        localStorage, VITE_API_URL, quota, otherTab, askVars, tourVars, h0,
                        userQuestion>>
    ELSE /\ Len(messages) + 2 <= MaxMessages
         /\ input' = <<>>
         /\ h0' = messages
         /\ userQuestion' = question
         /\ IF NotConfigured(apiUrl, "/ask")
              THEN /\ messages' = messages \o <<userMessage, Entry("error", Str(errorMsg))>>
                   /\ isBotTyping' = FALSE
                   /\ isLoading' = FALSE
                   /\ last' = Step("handleSendMessage", "not configured")
                   /\ UNCHANGED askVars
              ELSE /\ messages' = Append(messages, userMessage)
                   /\ isLoading' = TRUE
                   /\ isBotTyping' = TRUE
                   /\ askRequest' = AskRequest(apiUrl, question, Append(messages, userMessage))
                   /\ askPc' = "fetch"
                   /\ last' = Step("handleSendMessage", "fetch")
                   /\ UNCHANGED askResponse
         /\ localStorage' = SaveEffect(messages', localStorage)
         /\ UNCHANGED <<isTouring, VITE_API_URL, quota, otherTab, tourVars>>

\* (variant: a catch block that puts its entry in place of the last one)
AskCatch_ReplacesLast(message, branch) ==
  /\ isBotTyping' = FALSE
  /\ messages' = Append(SubSeq(messages, 1, Len(messages) - 1),
                        Entry("error", Str("Request failed: " \o message)))
  /\ isLoading' = FALSE
  /\ last' = Step("handleSendMessage", branch)

\* (variant: a catch block that only logs)
AskCatch_NoEntry(message, branch) ==
  /\ isBotTyping' = FALSE
  /\ messages' = messages
  /\ isLoading' = FALSE
  /\ last' = Step("handleSendMessage", branch)

\* (variant: no finally block)
AskCatch_NoFinally(message, branch) ==
  /\ isBotTyping' = FALSE
  /\ messages' = Append(messages, Entry("error", Str("Request failed: " \o message)))
  /\ isLoading' = isLoading
  /\ last' = Step("handleSendMessage", branch)

\* (variant: a catch block that leaves the typing indicator on)
AskCatch_StillTyping(message, branch) ==
  /\ isBotTyping' = isBotTyping
  /\ messages' = Append(messages, Entry("error", Str("Request failed: " \o message)))
  /\ isLoading' = FALSE
  /\ last' = Step("handleSendMessage", branch)

\* the catch and finally blocks of handleSendMessage
AskCatch(message, branch) ==
  /\ isBotTyping' = FALSE
  /\ messages' = Append(messages, Entry("error", Str("Request failed: " \o message)))
  /\ isLoading' = FALSE
  /\ last' = Step("handleSendMessage", branch)

\* (variant: a response that leaves the typing indicator on)
AskFetchSettles_StillTyping ==
  /\ askPc = "fetch"
  /\ askRequest' = NoRequest
  /\ \/ \E message \in TransportErrors :
          /\ AskCatch(message, "transport failure")
          /\ askPc' = "idle"
          /\ localStorage' = SaveEffect(messages', localStorage)
          /\ UNCHANGED askResponse
     \/ \E r \in AskResponses :
          /\ askResponse' = r
          /\ isBotTyping' = isBotTyping
          /\ askPc' = IF r.ok THEN "json" ELSE "errjson"
          /\ last' = Step("handleSendMessage", "response")
          /\ UNCHANGED <<messages, isLoading, localStorage>>
  /\ UNCHANGED <<input, isTouring, VITE_API_URL, quota, otherTab, tourVars, h0, userQuestion>>

\* await fetch(...) settles
AskFetchSettles ==
  /\ askPc = "fetch"
  /\ askRequest' = NoRequest
  /\ \/ \E message \in TransportErrors :
          /\ AskCatch(message, "transport failure")
          /\ askPc' = "idle"
          /\ localStorage' = SaveEffect(messages', localStorage)
          /\ UNCHANGED askResponse
     \/ \E r \in AskResponses :
          /\ askResponse' = r
          /\ isBotTyping' = FALSE
          /\ askPc' = IF r.ok THEN "json" ELSE "errjson"
          /\ last' = Step("handleSendMessage", "response")
          /\ UNCHANGED <<messages, isLoading, localStorage>>
  /\ UNCHANGED <<input, isTouring, VITE_API_URL, quota, otherTab, tourVars, h0, userQuestion>>

\* (variant: the parse failure handled with an empty object)
ErrorData_NoStatusText(r) ==
  IF r.body.k = "unparseable" THEN Obj(Undefined, Undefined, Undefined) ELSE r.body

\* response.json().catch(() => ({ error: response.statusText }))
ErrorData(r) ==
  IF r.body.k = "unparseable" THEN Obj(Undefined, Str(r.statusText), Undefined) ELSE r.body

\* (variant: the message without the status code)
ApiErrorMsg_NoStatus(prefix, r) ==
  prefix \o ToStr(OrElse(Get(ErrorData(r), "error"), Str("Unknown Error")))

\* `${prefix}${response.status} - ${errorData.error || "Unknown Error"}`
ApiErrorMsg(prefix, r) ==
  prefix \o ToString(r.status) \o " - "
    \o ToStr(OrElse(Get(ErrorData(r), "error"), Str("Unknown Error")))

\* the !response.ok branch, after its await
AskErrorBodySettles ==
  /\ askPc = "errjson"
  /\ IF Throws(ErrorData(askResponse))
       THEN AskCatch(TypeErrorMessage("error"), "error body null")
       ELSE /\ messages' = Append(messages, Entry("error", Str(ApiErrorMsg("API Error: ", askResponse))))
            /\ isLoading' = FALSE
            /\ last' = Step("handleSendMessage", "http failure")
            /\ UNCHANGED isBotTyping
  /\ askPc' = "idle"
  /\ askResponse' = NoResponse
  /\ localStorage' = SaveEffect(messages', localStorage)
  /\ UNCHANGED <<input, isTouring, VITE_API_URL, quota, otherTab, askRequest, tourVars, h0, userQuestion>>

\* const data = await response.json(), and the rest of the try block
AskBodySettles ==
  /\ askPc = "json"
  /\ LET data == askResponse.body IN
       IF data.k = "unparseable"
         THEN AskCatch(data.message, "body unparseable")
         ELSE IF Throws(data)
           THEN AskCatch(TypeErrorMessage("answer"), "body null")
           ELSE /\ messages' = Append(messages, Entry("bot", Get(data, "answer")))
                /\ isLoading' = FALSE
                /\ last' = Step("handleSendMessage", "answered")
                /\ UNCHANGED isBotTyping
  /\ askPc' = "idle"
  /\ askResponse' = NoResponse
  /\ localStorage' = SaveEffect(messages', localStorage)
  /\ UNCHANGED <<input, isTouring, VITE_API_URL, quota, otherTab, askRequest, tourVars, h0, userQuestion>>

----------------------------------------------------------------------------
(* handleStartTour *)

Scripts ==
  {Undefined, Str("not an array"), Arr(<<>>),
   Arr(<<Str("Hi"), Str("Welcome")>>),
   Arr(<<Str("Hi"), Null, Str("Welcome")>>)}

TourBodies ==
  {Unparseable(SyntaxErrorMessage), Null}
    \cup {Obj(Undefined, e, t) : e \in {Undefined, Str(""), Str("overloaded")},
                                t \in Scripts}

TourFits(status, body) ==
  body.k = "object" =>
    IF Ok(status) THEN body.error = Undefined ELSE body.tour = Undefined

TourResponses ==
  UNION {{Response(sl[1], sl[2], b) : b \in {x \in TourBodies : TourFits(sl[1], x)}}
           : sl \in StatusLines}

\* (variant: the guard without the isLoading test)
TourRejected_NoLoadingTest == isBotTyping \/ isTouring

\* (variant: a guard that only tests the tour flag)
TourRejected_OnlyTouring == isTouring

\* the guard of handleStartTour
TourRejected == isLoading \/ isBotTyping \/ isTouring

TourFailed(errorMsg) == Entry("error", Str("Tour failed: " \o errorMsg))

\* (variant: the base delay only)
delay_BaseOnly(msgText) == 1000

\* delay(msgText.length * 40 + 1000)
delay(msgText) == Len(msgText.v) * 40 + 1000

\* (variant: a tour that does not clear the history first)
handleStartTour_KeepsHistory ==
  LET apiUrl == Plus(VITE_API_URL, "/tour")
      errorMsg == "API URL is not configured for tour."
  IN
  IF TourRejected
    THEN /\ last' = Step("handleStartTour", "rejected")
         /\ UNCHANGED <<messages, input, isLoading, isBotTyping, isTouring,
                        localStorage, VITE_API_URL, quota, otherTab, askVars, tourVars, h0,
                        userQuestion>>
    ELSE /\ h0' = <<>>
         /\ userQuestion' = ""
         /\ tourScript' = <<>>
         /\ IF NotConfigured(apiUrl, "/tour")
              THEN /\ messages' = Append(messages, TourFailed(errorMsg))
                   /\ isBotTyping' = FALSE
                   /\ isTouring' = FALSE
                   /\ last' = Step("handleStartTour", "not configured")
                   /\ UNCHANGED <<tourPc, tourRequest>>
              ELSE /\ messages' = messages
                   /\ isTouring' = TRUE
                   /\ isBotTyping' = TRUE
                   /\ tourRequest' = [k |-> "request", url |-> apiUrl, method |-> "GET"]
                   /\ tourPc' = "fetch"
                   /\ last' = Step("handleStartTour", "fetch")
         /\ localStorage' = SaveEffect(messages', localStorage)
         /\ UNCHANGED <<input, isLoading, VITE_API_URL, quota, otherTab, askVars, tourResponse,
                        tourMessages, timer>>

\* the synchronous part: from the click to the first await
handleStartTour ==
  LET apiUrl == Plus(VITE_API_URL, "/tour")
      errorMsg == "API URL is not configured for tour."
  IN
  IF TourRejected
    THEN /\ last' = Step("handleStartTour", "rejected")
         /\ UNCHANGED <<messages, input, isLoading, isBotTyping, isTouring,
                        localStorage, VITE_API_URL, quota, otherTab, askVars, tourVars, h0,
                        userQuestion>>
    ELSE /\ h0' = <<>>
         /\ userQuestion' = ""
         /\ tourScript' = <<>>
         /\ IF NotConfigured(apiUrl, "/tour")
              THEN /\ messages' = <<TourFailed(errorMsg)>>
                   /\ isBotTyping' = FALSE
                   /\ isTouring' = FALSE
                   /\ last' = Step("handleStartTour", "not configured")
                   /\ UNCHANGED <<tourPc, tourRequest>>
              ELSE /\ messages' = <<>>
                   /\ isTouring' = TRUE
                   /\ isBotTyping' = TRUE
                   /\ tourRequest' = [k |-> "request", url |-> apiUrl, method |-> "GET"]
                   /\ tourPc' = "fetch"
                   /\ last' = Step("handleStartTour", "fetch")
         /\ localStorage' = SaveEffect(messages', localStorage)
         /\ UNCHANGED <<input, isLoading, VITE_API_URL, quota, otherTab, askVars, tourResponse,
                        tourMessages, timer>>

\* (variant: catch and finally blocks that leave the typing indicator as
\* the throw found it)
TourCatch_StillTyping(msgs, message, branch) ==
  /\ messages' = Append(msgs, Entry("error",
        Str("An unexpected error occurred during the tour: " \o message)))
  /\ isBotTyping' = isBotTyping
  /\ isTouring' = FALSE
  /\ tourPc' = "idle"
  /\ last' = Step("handleStartTour", branch)

\* the catch and finally blocks of handleStartTour, entered from history msgs
TourCatch(msgs, message, branch) ==
  /\ messages' = Append(msgs, Entry("error",
        Str("An unexpected error occurred during the tour: " \o message)))
  /\ isBotTyping' = FALSE
  /\ isTouring' = FALSE
  /\ tourPc' = "idle"
  /\ last' = Step("handleStartTour", branch)

\* (variant: a throw in place of the early return, caught by the handler's
\* own catch block)
TourAbort_ThenCatch(errorMsg, branch) ==
  /\ messages' = messages \o
        <<TourFailed(errorMsg),
          Entry("error", Str("An unexpected error occurred during the tour: "
                               \o errorMsg))>>
  /\ isBotTyping' = FALSE
  /\ isTouring' = FALSE
  /\ tourPc' = "idle"
  /\ last' = Step("handleStartTour", branch)

\* (variant: an early return that leaves the tour flag set)
TourAbort_StillTouring(errorMsg, branch) ==
  /\ messages' = Append(messages, TourFailed(errorMsg))
  /\ isBotTyping' = FALSE
  /\ isTouring' = isTouring
  /\ tourPc' = "idle"
  /\ last' = Step("handleStartTour", branch)

\* an early return of handleStartTour with one error entry, and its finally
TourAbort(errorMsg, branch) ==
  /\ messages' = Append(messages, TourFailed(errorMsg))
  /\ isBotTyping' = FALSE
  /\ isTouring' = FALSE
  /\ tourPc' = "idle"
  /\ last' = Step("handleStartTour", branch)

\* await fetch(apiUrl) settles
TourFetchSettles ==
  /\ tourPc = "fetch"
  /\ tourRequest' = NoRequest
  /\ \/ \E message \in TransportErrors :
          /\ TourCatch(messages, message, "transport failure")
          /\ localStorage' = SaveEffect(messages', localStorage)
          /\ UNCHANGED tourResponse
     \/ \E r \in TourResponses :
          /\ tourResponse' = r
          /\ isBotTyping' = FALSE
          /\ tourPc' = IF r.ok THEN "json" ELSE "errjson"
          /\ last' = Step("handleStartTour", "response")
          /\ UNCHANGED <<messages, isTouring, localStorage>>
  /\ UNCHANGED <<input, isLoading, VITE_API_URL, quota, otherTab, askVars, tourScript,
                 tourMessages, timer, h0, userQuestion>>

\* the !response.ok branch, after its await
TourErrorBodySettles ==
  /\ tourPc = "errjson"
  /\ IF Throws(ErrorData(tourResponse))
       THEN TourCatch(messages, TypeErrorMessage("error"), "error body null")
       ELSE TourAbort(ApiErrorMsg("Tour API Error: ", tourResponse), "http failure")
  /\ tourResponse' = NoResponse
  /\ localStorage' = SaveEffect(messages', localStorage)
  /\ UNCHANGED <<input, isLoading, VITE_API_URL, quota, otherTab, askVars, tourRequest,
                 tourScript, tourMessages, timer, h0, userQuestion>>

\* (variant: no finally block)
TourEnd_NoFinally ==
  /\ isTouring' = isTouring
  /\ isBotTyping' = isBotTyping
  /\ tourPc' = "idle"
  /\ tourMessages' = <<>>
  /\ timer' = 0
  /\ last' = Step("handleStartTour", "played")
  /\ UNCHANGED messages

\* the end of the for loop: the finally block
TourEnd ==
  /\ isTouring' = FALSE
  /\ isBotTyping' = FALSE
  /\ tourPc' = "idle"
  /\ tourMessages' = <<>>
  /\ timer' = 0
  /\ last' = Step("handleStartTour", "played")
  /\ UNCHANGED messages

\* (variant: a loop that awaits only the delay of the last element)
TourRound_NoAwait(rest) ==
  /\ messages' = messages \o [i \in 1..Len(rest) |-> Entry("bot", rest[i])]
  /\ isBotTyping' = TRUE
  /\ timer' = IF Throws(rest[Len(rest)]) THEN 0 ELSE delay(rest[Len(rest)])
  /\ tourMessages' = <<>>
  /\ tourPc' = "delay"
  /\ last' = Step("handleStartTour", "delay")
  /\ UNCHANGED isTouring

\* (variant: a round that reads the length before it appends the entry)
TourRound_ReadsLengthFirst(rest) ==
  LET msgText == Head(rest)
      botMessage == Entry("bot", msgText)
  IN IF Throws(msgText)
       THEN /\ TourCatch(messages, TypeErrorMessage("length"), "element null")
            /\ tourMessages' = <<>>
            /\ timer' = 0
       ELSE /\ messages' = Append(messages, botMessage)
            /\ isBotTyping' = TRUE
            /\ timer' = delay(msgText)
            /\ tourMessages' = Tail(rest)
            /\ tourPc' = "delay"
            /\ last' = Step("handleStartTour", "delay")
            /\ UNCHANGED isTouring

\* one round of the for loop, for the first of the elements rest, up to its
\* await
TourRound(rest) ==
  LET msgText == Head(rest)
      botMessage == Entry("bot", msgText)
  IN IF Throws(msgText)
       THEN /\ TourCatch(Append(messages, botMessage),
                         TypeErrorMessage("length"), "element null")
            /\ tourMessages' = <<>>
            /\ timer' = 0
       ELSE /\ messages' = Append(messages, botMessage)
            /\ isBotTyping' = TRUE
            /\ timer' = delay(msgText)
            /\ tourMessages' = Tail(rest)
            /\ tourPc' = "delay"
            /\ last' = Step("handleStartTour", "delay")
            /\ UNCHANGED isTouring

\* the for loop from its head with the elements rest still to play, up to
\* the next await or the end of the handler
TourLoop(rest) == IF rest = <<>> THEN TourEnd ELSE TourRound(rest)

\* const data = await response.json(), the format test and the first round
\* of the loop
TourBodySettles ==
  /\ tourPc = "json"
  /\ LET data == tourResponse.body IN
       IF data.k = "unparseable"
         THEN TourCatch(messages, data.message, "body unparseable")
                /\ UNCHANGED <<tourMessages, timer>>
         ELSE IF Throws(data)
           THEN TourCatch(messages, TypeErrorMessage("tour"), "body null")
                  /\ UNCHANGED <<tourMessages, timer>>
           ELSE IF ~IsArray(Get(data, "tour"))
             THEN TourAbort("Invalid tour data format from API.", "not an array")
                    /\ UNCHANGED <<tourMessages, timer>>
             ELSE TourLoop(Get(data, "tour").v)
  /\ tourScript' = IF tourResponse.body.k = "object" /\ IsArray(Get(tourResponse.body, "tour"))
                     THEN Get(tourResponse.body, "tour").v
                     ELSE tourScript
  /\ tourResponse' = NoResponse
  /\ localStorage' = IF messages' = messages THEN localStorage
                     ELSE SaveEffect(messages', localStorage)
  /\ UNCHANGED <<input, isLoading, VITE_API_URL, quota, otherTab, askVars, tourRequest, h0,
                 userQuestion>>

\* await delay(...) resolves: the rest of this round and the next one
TourDelaySettles ==
  /\ tourPc = "delay"
  /\ TourLoop(tourMessages)
  /\ localStorage' = IF messages' = messages THEN localStorage
                     ELSE SaveEffect(messages', localStorage)
  /\ UNCHANGED <<input, isLoading, VITE_API_URL, quota, otherTab, askVars, tourRequest,
                 tourResponse, tourScript, h0, userQuestion>>

----------------------------------------------------------------------------

Next ==
  \/ App
  \/ \E value \in Questions : handleInputChange(value)
  \/ handleClearHistory
  \/ handleSendMessage
  \/ AskFetchSettles
  \/ AskErrorBodySettles
  \/ AskBodySettles
  \/ handleStartTour
  \/ TourFetchSettles
  \/ TourErrorBodySettles
  \/ TourBodySettles
  \/ TourDelaySettles

Spec == Init /\ [][Next]_vars

----------------------------------------------------------------------------
(* Two sessions (tabs) on the same storage. The second session runs the   *)
(* same component; of it, the model keeps what reaches the storage: each  *)
(* render after a change of its history runs its save effect.             *)

MaxOther == 2

OtherEntries == {Entry("user", Str("from the other tab"))}

sessionVars ==
  <<messages, input, isLoading, isBotTyping, isTouring, VITE_API_URL, quota,
    askVars, tourVars, h0, userQuestion>>

\* the second session appends an entry: setMessages, then the save effect
\* (variant: a session that listens to the storage event and takes over
\* what the other session wrote)
OtherTabAppends_Notifies(entry) ==
  /\ Len(otherTab) < MaxOther
  /\ otherTab' = Append(otherTab, entry)
  /\ localStorage' = SaveEffect(otherTab', localStorage)
  /\ last' = Step("otherTab", "appended")
  /\ messages' = IF isLoading \/ isTouring THEN messages
                 ELSE LoadMessages(localStorage')[1]
  /\ UNCHANGED <<input, isLoading, isBotTyping, isTouring, VITE_API_URL, quota,
                 askVars, tourVars, h0, userQuestion>>

OtherTabAppends(entry) ==
  /\ Len(otherTab) < MaxOther
  /\ otherTab' = Append(otherTab, entry)
  /\ localStorage' = SaveEffect(otherTab', localStorage)
  /\ last' = Step("otherTab", "appended")
  /\ UNCHANGED sessionVars

\* Clear History in the second session
OtherTabClears ==
  /\ otherTab' = <<>>
  /\ localStorage' = SaveEffect(otherTab', localStorage)
  /\ last' = Step("otherTab", "cleared")
  /\ UNCHANGED sessionVars

\* both sessions were constructed over the same stored value, on a
\* configured build
InitTabs ==
  /\ Start({100}, {Str("http://localhost:5000")},
           {Missing, Item(Arr(<<Entry("user", Str("hi")),
                                Entry("bot", Str("A block is..."))>>))})
  /\ otherTab = messages

NextTabs ==
  \/ Next
  \/ \E entry \in OtherEntries : OtherTabAppends(entry)
  \/ OtherTabClears

SpecTabs == InitTabs /\ [][NextTabs]_vars

----------------------------------------------------------------------------
(* The revision src/src/App.jsx: no tour, no Clear History, no durable    *)
(* copy. Its state is messages, input, isLoading and isBotTyping; the     *)
(* other variables of this module keep the values they start with.        *)

absent == <<isTouring, localStorage, VITE_API_URL, quota, otherTab, tourVars>>

InitAppJsx ==
  /\ messages = <<>>
  /\ input = <<>>
  /\ isLoading = FALSE
  /\ isBotTyping = FALSE
  /\ VITE_API_URL \in BaseUrls
  /\ askPc = "idle"
  /\ askRequest = NoRequest
  /\ askResponse = NoResponse
  /\ h0 = <<>>
  /\ userQuestion = ""
  /\ last = Mounted("no storage", "none")
  /\ isTouring = FALSE
  /\ localStorage = Missing
  /\ quota = 0
  /\ otherTab = <<>>
  /\ tourPc = "idle"
  /\ tourRequest = NoRequest
  /\ tourResponse = NoResponse
  /\ tourScript = <<>>
  /\ tourMessages = <<>>
  /\ timer = 0

\* the input is disabled while isLoading
AppJsx_handleInputChange(value) ==
  /\ ~isLoading
  /\ input' = value
  /\ h0' = <<>>
  /\ userQuestion' = ""
  /\ last' = Step("handleInputChange", "set")
  /\ UNCHANGED <<messages, isLoading, isBotTyping, askVars, absent>>

\* the synchronous part: from the submit event to the first await
AppJsx_handleSendMessage ==
  LET question == trim(input)
      userMessage == Entry("user", Str(question))
      apiUrl == Plus(VITE_API_URL, "/ask")
      errorMsg == "API URL is not configured."
  IN
  IF question = "" \/ isLoading
    THEN /\ last' = Step("handleSendMessage", "rejected")
         /\ UNCHANGED <<messages, input, isLoading, isBotTyping, askVars, h0,
                        userQuestion, absent>>
    ELSE /\ Len(messages) + 2 <= MaxMessages
         /\ input' = <<>>
         /\ h0' = messages
         /\ userQuestion' = question
         /\ IF NotConfigured(apiUrl, "/ask")
              THEN /\ messages' = messages \o <<userMessage, Entry("error", Str(errorMsg))>>
                   /\ isBotTyping' = TRUE
                   /\ isLoading' = FALSE
                   /\ last' = Step("handleSendMessage", "not configured")
                   /\ UNCHANGED askVars
              ELSE /\ messages' = Append(messages, userMessage)
                   /\ isLoading' = TRUE
                   /\ isBotTyping' = TRUE
                   /\ askRequest' = AskRequest(apiUrl, question, Append(messages, userMessage))
                   /\ askPc' = "fetch"
                   /\ last' = Step("handleSendMessage", "fetch")
                   /\ UNCHANGED askResponse
         /\ UNCHANGED absent

\* await fetch(...) settles
AppJsx_FetchSettles ==
  /\ askPc = "fetch"
  /\ askRequest' = NoRequest
  /\ \/ \E message \in TransportErrors :
          /\ AskCatch(message, "transport failure")
          /\ askPc' = "idle"
          /\ UNCHANGED askResponse
     \/ \E r \in AskResponses :
          /\ askResponse' = r
          /\ isBotTyping' = FALSE
          /\ askPc' = IF r.ok THEN "json" ELSE "errjson"
          /\ last' = Step("handleSendMessage", "response")
          /\ UNCHANGED <<messages, isLoading>>
  /\ UNCHANGED <<input, h0, userQuestion, absent>>

\* the !response.ok branch, after its await
AppJsx_ErrorBodySettles ==
  /\ askPc = "errjson"
  /\ IF Throws(ErrorData(askResponse))
       THEN AskCatch(TypeErrorMessage("error"), "error body null")
       ELSE /\ messages' = Append(messages, Entry("error", Str(ApiErrorMsg("API Error: ", askResponse))))
            /\ isLoading' = FALSE
            /\ last' = Step("handleSendMessage", "http failure")
            /\ UNCHANGED isBotTyping
  /\ askPc' = "idle"
  /\ askResponse' = NoResponse
  /\ UNCHANGED <<input, askRequest, h0, userQuestion, absent>>

\* const data = await response.json(), and the rest of the try block
AppJsx_BodySettles ==
  /\ askPc = "json"
  /\ LET data == askResponse.body IN
       IF data.k = "unparseable"
         THEN AskCatch(data.message, "body unparseable")
         ELSE IF Throws(data)
           THEN AskCatch(TypeErrorMessage("answer"), "body null")
           ELSE /\ messages' = Append(messages, Entry("bot", Get(data, "answer")))
                /\ isLoading' = FALSE
                /\ last' = Step("handleSendMessage", "answered")
                /\ UNCHANGED isBotTyping
  /\ askPc' = "idle"
  /\ askResponse' = NoResponse
  /\ UNCHANGED <<input, askRequest, h0, userQuestion, absent>>

NextAppJsx ==
  \/ \E value \in Questions : AppJsx_handleInputChange(value)
  \/ AppJsx_handleSendMessage
  \/ AppJsx_FetchSettles
  \/ AppJsx_ErrorBodySettles
  \/ AppJsx_BodySettles

SpecAppJsx == InitAppJsx /\ [][NextAppJsx]_vars

----------------------------------------------------------------------------
(* Vocabulary of the properties *)

\* SessionMode of the specification
Idle == ~isLoading /\ ~isTouring

\* this step is the synchronous part of handleSendMessage or handleStartTour
Invoked(op) ==
  /\ last'.op = op
  /\ last'.branch \in {"rejected", "not configured", "fetch"}

\* the last step ended a run of handleSendMessage
AskFinished ==
  /\ last.op = "handleSendMessage"
  /\ last.branch \notin {"rejected", "fetch", "response"}

\* the last step ended a run of handleStartTour
TourFinished ==
  /\ last.op = "handleStartTour"
  /\ last.branch \notin {"rejected", "fetch", "response", "delay"}

userEntry == Entry("user", Str(userQuestion))

LastMessage == messages[Len(messages)]

FollowUp(e) == e.type \in {"bot", "error"}

\* this step is the one in which handleSendMessage returns after await a
AskReturnsFrom(a) ==
  askPc = a /\ askPc' = "idle" /\ last'.op = "handleSendMessage"

TourReturnsFrom(a) ==
  tourPc = a /\ tourPc' = "idle" /\ last'.op = "handleStartTour"

\* the text after "<status> - " that an HTTP failure entry must carry
HttpFailureText(prefix, r, msg) == prefix \o ToString(r.status) \o " - " \o msg

----------------------------------------------------------------------------
(* C1: isLoading and isTouring are never both true. *)
C1_AnsweringExcludesTouring == ~(isLoading /\ isTouring)

\* a question was submitted while a tour was playing
C1_Witness ==
  /\ isTouring
  /\ tourPc = "delay"
  /\ trim(input) # ""
  /\ last = Step("handleSendMessage", "rejected")

(* C2: handleSendMessage or handleStartTour invoked while the mode is not *)
(* Idle changes nothing: no entry, no clearing, no flag, no call, no      *)
(* suspended handler.                                                     *)
C2_RejectedIsNoOp ==
  [][(~Idle /\ (Invoked("handleSendMessage") \/ Invoked("handleStartTour")))
       => UNCHANGED <<messages, input, isLoading, isBotTyping, isTouring,
                      localStorage, askVars, tourVars>>]_vars

\* the tour button was pressed while an ask was waiting for its answer
C2_Witness ==
  /\ isLoading
  /\ askPc = "fetch"
  /\ messages # <<>>
  /\ last = Step("handleStartTour", "rejected")

(* C3: while an accepted ask runs the history is the one it started from  *)
(* plus its user entry; when it has finished, plus exactly one follow-up  *)
(* entry of kind bot or error.                                            *)
C3_OneUserOneFollowUp ==
  /\ askPc # "idle" => messages = Append(h0, userEntry)
  /\ AskFinished =>
       /\ Len(messages) = Len(h0) + 2
       /\ SubSeq(messages, 1, Len(h0) + 1) = Append(h0, userEntry)
       /\ FollowUp(LastMessage)

\* an ask ended in the catch block after an earlier exchange
C3_Witness ==
  /\ AskFinished
  /\ last.branch = "body unparseable"
  /\ Len(h0) = 2
  /\ Len(messages) = 4

(* C4: when an accepted ask has finished, isLoading is false and no part  *)
(* of the handler is left waiting.                                        *)
C4_FinishedAskIsIdle == AskFinished => (~isLoading /\ askPc = "idle")

\* an ask ended on a failed transport
C4_Witness ==
  /\ AskFinished
  /\ last.branch = "transport failure"
  /\ ~isLoading

(* C5: a 2xx response with body {answer: a}, a a string, ends the ask     *)
(* with history h + [user q, bot a] and isLoading false.                  *)
C5_AnswerAppended ==
  [][(AskReturnsFrom("json")
        /\ askResponse.body.k = "object"
        /\ askResponse.body.answer.k = "string")
       => /\ messages' = h0 \o <<userEntry, Entry("bot", askResponse.body.answer)>>
          /\ ~isLoading']_vars

\* the second exchange of a conversation was answered
C5_Witness ==
  /\ last = Step("handleSendMessage", "answered")
  /\ Len(h0) = 2
  /\ messages = h0 \o <<userEntry, Entry("bot", Str("A block is..."))>>
  /\ Idle

(* C6: a 2xx response whose body has no answer field ends the ask with an *)
(* error entry, not a bot entry.                                          *)
C6_MissingAnswerIsError ==
  [][(AskReturnsFrom("json")
        /\ askResponse.body.k = "object"
        /\ askResponse.body.answer = Undefined)
       => messages'[Len(messages')].type = "error"]_vars

(* C7 as stated: a non-2xx response with status s and body {error: m}     *)
(* ends the ask with the single error entry "API Error: s - m".           *)
C7_ServerMessageReported_Original ==
  [][(AskReturnsFrom("errjson")
        /\ askResponse.body.k = "object"
        /\ askResponse.body.error.k = "string")
       => messages' = Append(messages, Entry("error",
            Str(HttpFailureText("API Error: ", askResponse, askResponse.body.error.v))))]_vars

(* C7 amended: the same for a non-empty m; an empty m is reported as      *)
(* "Unknown Error".                                                       *)
C7_ServerMessageReported ==
  [][(AskReturnsFrom("errjson")
        /\ askResponse.body.k = "object"
        /\ askResponse.body.error.k = "string")
       => messages' = Append(messages, Entry("error",
            Str(HttpFailureText("API Error: ", askResponse,
                  IF askResponse.body.error.v # "" THEN askResponse.body.error.v
                                                   ELSE "Unknown Error"))))]_vars

\* the scenario of the specification: status 500, {error: "overloaded"}
C7_Witness ==
  /\ last = Step("handleSendMessage", "http failure")
  /\ messages = Append(h0, userEntry)
                   \o <<Entry("error", Str("API Error: 500 - overloaded"))>>

\* the body of a non-2xx response carries no server error message
NoServerMessage(body) ==
  body.k = "unparseable" \/ (body.k = "object" /\ body.error = Undefined)

(* C8 as stated: on a non-2xx response whose body is unparseable or has   *)
(* no error field, the message part of the error entry of                 *)
(* handleSendMessage and of handleStartTour is the HTTP status text.      *)
C8_FallsBackToStatusText_Original ==
  [][/\ (AskReturnsFrom("errjson") /\ NoServerMessage(askResponse.body))
         => messages' = Append(messages, Entry("error",
              Str(HttpFailureText("API Error: ", askResponse, askResponse.statusText))))
     /\ (TourReturnsFrom("errjson") /\ NoServerMessage(tourResponse.body))
         => messages' = Append(messages, TourFailed(
              HttpFailureText("Tour API Error: ", tourResponse, tourResponse.statusText)))
    ]_vars

\* the message part after an unparseable body, and after a parsed body
\* without an error field
FallbackText(r) ==
  IF r.body.k = "unparseable" /\ r.statusText # "" THEN r.statusText ELSE "Unknown Error"

(* C8 amended: the message part is the HTTP status text only when the     *)
(* body is unparseable and the status text is not empty; it is "Unknown   *)
(* Error" when the status text is empty or when the body parses to an     *)
(* object without an error field.                                         *)
C8_FallsBackToStatusText ==
  [][/\ (AskReturnsFrom("errjson") /\ NoServerMessage(askResponse.body))
         => messages' = Append(messages, Entry("error",
              Str(HttpFailureText("API Error: ", askResponse, FallbackText(askResponse)))))
     /\ (TourReturnsFrom("errjson") /\ NoServerMessage(tourResponse.body))
         => messages' = Append(messages, TourFailed(
              HttpFailureText("Tour API Error: ", tourResponse, FallbackText(tourResponse))))
    ]_vars

\* a tour ended on a 500 whose body was not JSON
C8_Witness ==
  /\ last = Step("handleStartTour", "http failure")
  /\ messages = <<TourFailed("Tour API Error: 500 - Internal Server Error")>>

(* C9: an ask whose fetch rejected has appended exactly one error entry   *)
(* carrying the transport failure message, the typing indicator is off,   *)
(* isLoading is false, and no call is in flight.                          *)
C9_TransportFailureReported ==
  last = Step("handleSendMessage", "transport failure") =>
    /\ \E message \in TransportErrors :
         messages = Append(h0, userEntry)
                      \o <<Entry("error", Str("Request failed: " \o message))>>
    /\ ~isBotTyping
    /\ ~isLoading
    /\ askPc = "idle"
    /\ askRequest = NoRequest

\* the first ask of a session failed to reach the server
C9_Witness ==
  /\ last = Step("handleSendMessage", "transport failure")
  /\ h0 = <<>>
  /\ messages = <<userEntry, Entry("error", Str("Request failed: Failed to fetch"))>>

\* an entry saying that the endpoint is not configured
NotConfiguredEntries ==
  {Entry("error", Str("API URL is not configured.")),
   TourFailed("API URL is not configured for tour.")}

(* C10: with VITE_API_URL undefined or empty, an accepted ask and an      *)
(* accepted tour append a "not configured" error entry and return to Idle *)
(* without issuing a call.                                                *)
C10_UnconfiguredFailsFast ==
  [][(/\ VITE_API_URL \in {Undefined, Str("")}
      /\ Idle
      /\ \/ Invoked("handleSendMessage") /\ trim(input) # ""
         \/ Invoked("handleStartTour") /\ ~isBotTyping)
       => /\ messages' # <<>>
          /\ messages'[Len(messages')] \in NotConfiguredEntries
          /\ Idle'
          /\ askRequest' = NoRequest
          /\ tourRequest' = NoRequest]_vars

----------------------------------------------------------------------------
(* Vocabulary of the tour properties *)

\* the script as the bot entries its playback appends
Bots(script) == [i \in 1..Len(script) |-> Entry("bot", script[i])]

IsPrefix(s, t) == Len(s) <= Len(t) /\ SubSeq(t, 1, Len(s)) = s

\* this step is a step of handleStartTour that took branch b
TourStep(b) == last' = Step("handleStartTour", b)

(* C11: while a tour plays (the handler waits in delay), it is touring    *)
(* and the history is the prefix of the script, as bot entries, that      *)
(* leaves exactly the elements not yet reached; a round appends the one   *)
(* next entry of the script, and does so from the response or from a      *)
(* resolved delay; the tour ends as played only from the delay of the     *)
(* last element (or on an empty script), leaving the whole script as the  *)
(* history and the mode Idle; until then every step of the session that   *)
(* is not the failure of a round keeps it touring.                        *)
C11_PlaybackInOrder ==
  [][ /\ tourPc' = "delay" =>
           /\ isTouring'
           /\ IsPrefix(messages', Bots(tourScript'))
           /\ messages' \o Bots(tourMessages') = Bots(tourScript')
      /\ TourStep("delay") =>
           /\ tourPc \in {"json", "delay"}
           /\ Len(messages) < Len(tourScript')
           /\ messages' = Append(messages, Bots(tourScript')[Len(messages) + 1])
      /\ TourStep("played") =>
           /\ tourPc \in {"json", "delay"}
           /\ tourPc = "delay" => tourMessages = <<>>
           /\ messages' = Bots(tourScript')
           /\ Idle'
      /\ (tourPc = "delay" /\ last'.op # "App"
            /\ ~TourStep("played") /\ ~TourStep("element null")) =>
           isTouring' /\ tourPc' = "delay"
    ]_vars

\* the last entry of the script ["Hi", "Welcome"] is on display and its
\* delay is pending
C11_Witness ==
  /\ tourPc = "delay"
  /\ isTouring
  /\ tourMessages = <<>>
  /\ timer = 1280
  /\ messages = <<Entry("bot", Str("Hi")), Entry("bot", Str("Welcome"))>>

\* every element of the script is a string
AllStrings(script) == \A i \in 1..Len(script) : script[i].k = "string"

(* C12: a tour that goes on to fetch starts from the empty history,       *)
(* whatever the history was, and the history stays empty until the script *)
(* has arrived; after the playback of a script of strings the history is  *)
(* exactly the script as bot entries, in order, each element once.        *)
C12_TourReplacesHistory ==
  [][ /\ TourStep("fetch") => messages' = <<>>
      /\ tourPc' \in {"fetch", "json", "errjson"} => messages' = <<>>
      /\ (TourStep("played") /\ AllStrings(tourScript')) =>
           /\ Len(messages') = Len(tourScript')
           /\ \A i \in 1..Len(tourScript') :
                 messages'[i] = Entry("bot", tourScript'[i])
    ]_vars

\* the script ["Hi", "Welcome"] has played to its end in a session whose
\* storage holds, and keeps, an older dialogue
C12_Witness ==
  /\ last = Step("handleStartTour", "played")
  /\ tourScript = <<Str("Hi"), Str("Welcome")>>
  /\ messages = <<Entry("bot", Str("Hi")), Entry("bot", Str("Welcome"))>>
  /\ quota = -1
  /\ LoadMessages(localStorage)[1] # <<>>

\* the response handleStartTour holds is a parsed object whose tour field
\* is not an array
TourNotASequence ==
  /\ tourPc = "json"
  /\ tourResponse.body.k = "object"
  /\ ~IsArray(tourResponse.body.tour)

(* C13: when the body of a 2xx tour response has a tour field that is not *)
(* an array, the handler ends at once: the history is exactly one entry,  *)
(* of kind error, saying that the format is invalid; no bot entry; the    *)
(* mode is Idle and the typing indicator is off.                          *)
C13_MalformedScriptAborts ==
  [][(TourNotASequence /\ last'.op = "handleStartTour"
        /\ last'.branch # "rejected") =>
       /\ TourStep("not an array")
       /\ messages' = <<TourFailed("Invalid tour data format from API.")>>
       /\ Idle'
       /\ ~isBotTyping'
       /\ tourPc' = "idle"
       /\ tourMessages' = <<>>
    ]_vars

\* the tour of a server that answered {tour: "not an array"} has ended
C13_Witness ==
  /\ last = Step("handleStartTour", "not an array")
  /\ messages = <<TourFailed("Invalid tour data format from API.")>>
  /\ Idle
  /\ ~isBotTyping

\* the entry of the catch block of handleStartTour for a transport failure
TourTransportEntries ==
  {Entry("error", Str("An unexpected error occurred during the tour: " \o message))
     : message \in TransportErrors}

(* C14: when the fetch of a tour rejects, the handler returns with the    *)
(* history holding exactly one entry, the error entry of the catch block; *)
(* when the response is not 2xx, the handler returns from reading the     *)
(* error body with exactly one entry, of kind error. In both cases the    *)
(* mode is Idle, the typing indicator is off and no call is in flight.    *)
C14_TourFailureReportedOnce ==
  [][ /\ TourReturnsFrom("fetch") =>
           /\ TourStep("transport failure")
           /\ Len(messages') = 1
           /\ messages'[1] \in TourTransportEntries
      /\ (tourPc = "fetch" /\ tourPc' = "errjson") =>
           messages' = <<>> /\ ~isBotTyping'
      /\ TourReturnsFrom("errjson") =>
           /\ Len(messages') = 1
           /\ messages'[1].type = "error"
      /\ (TourReturnsFrom("fetch") \/ TourReturnsFrom("errjson")) =>
           /\ Idle'
           /\ ~isBotTyping'
           /\ tourRequest' = NoRequest
           /\ tourMessages' = <<>>
    ]_vars

\* a tour whose fetch could not reach the server has ended
C14_Witness ==
  /\ last = Step("handleStartTour", "transport failure")
  /\ messages = <<Entry("error",
        Str("An unexpected error occurred during the tour: Failed to fetch"))>>
  /\ Idle
  /\ ~isBotTyping

\* the response handleStartTour holds carries the empty script
TourScriptEmpty ==
  /\ tourPc = "json"
  /\ tourResponse.body.k = "object"
  /\ tourResponse.body.tour = Arr(<<>>)

(* C15: when the body of a 2xx tour response carries the empty script,    *)
(* the handler ends at once as played: nothing is appended, the history   *)
(* is empty, the mode is Idle, the typing indicator is off and no delay   *)
(* is pending.                                                            *)
C15_EmptyScriptEndsIdle ==
  [][(TourScriptEmpty /\ last'.op = "handleStartTour"
        /\ last'.branch # "rejected") =>
       /\ TourStep("played")
       /\ messages = <<>>
       /\ messages' = <<>>
       /\ Idle'
       /\ ~isBotTyping'
       /\ tourPc' = "idle"
       /\ timer' = 0
    ]_vars

\* the tour of a server that answered {tour: []} has ended
C15_Witness ==
  /\ last = Step("handleStartTour", "played")
  /\ tourScript = <<>>
  /\ messages = <<>>
  /\ Idle
  /\ ~isBotTyping

----------------------------------------------------------------------------
(* Vocabulary of the persistence properties *)

\* the session has just been constructed and no handler has run yet
JustMounted == last.op = "App"

\* what the initializer found was a value JSON.parse threw on, or one it
\* parsed to something that is not an array
FoundCorrupt == last.branch \in {"unparseable", "not an array"}

Durable == LoadMessages(localStorage)[1]

\* the history without its last entry
Front(msgs) == SubSeq(msgs, 1, Len(msgs) - 1)

\* the write of the history msgs is one localStorage has room for
Fits(msgs) == Len(msgs) <= quota

(* C17, as stated: in every reachable state the durable copy is the       *)
(* serialized history, or the serialized history before its last          *)
(* mutation (the last append, or a clear).                                *)
C17_DurableLagsByOne_Original ==
  \/ Durable = StringifyMessages(messages)
  \/ messages = <<>>
  \/ Durable = StringifyMessages(Front(messages))

(* C17, amended: the save effect has run after every step that changed    *)
(* the history. Whenever localStorage has room for the history, the       *)
(* durable copy is the serialized history; a step of the session that     *)
(* leaves a history there is no room for leaves the durable copy as it    *)
(* was, however many mutations it is behind.                              *)
C17_DurableFollowsWhenWritable ==
  /\ [](Fits(messages) => localStorage = Stringify(messages))
  /\ [][(~Fits(messages') /\ last'.op # "App") =>
          localStorage' = localStorage]_vars

\* an ask answered by the bot on top of a hydrated dialogue of two
\* entries, in a storage with room for two: the durable copy is two
\* appends behind
C17_Witness ==
  /\ quota = 2
  /\ Len(messages) = 4
  /\ last = Step("handleSendMessage", "answered")
  /\ localStorage = Stringify(SubSeq(messages, 1, 2))

\* the messages of the exceptions the two handlers can catch
ThrownMessages ==
  TransportErrors \cup {SyntaxErrorMessage}
    \cup {TypeErrorMessage(f) : f \in {"answer", "error", "tour", "length"}}

\* what a failure entry can say after "<status> - "
ServerMessages ==
  {"Unknown Error", "overloaded"} \cup ({sl[2] : sl \in StatusLines} \ {""})

FailedStatuses == {ToString(sl[1]) : sl \in {x \in StatusLines : ~Ok(x[1])}}

\* the texts of the error entries the two handlers build
HandlerErrors ==
  {"API URL is not configured.",
   "Tour failed: API URL is not configured for tour.",
   "Tour failed: Invalid tour data format from API."}
    \cup {"Request failed: " \o m : m \in ThrownMessages}
    \cup {"An unexpected error occurred during the tour: " \o m : m \in ThrownMessages}
    \cup UNION {{"API Error: " \o st \o " - " \o m : m \in ServerMessages}
                  : st \in FailedStatuses}
    \cup UNION {{"Tour failed: Tour API Error: " \o st \o " - " \o m : m \in ServerMessages}
                  : st \in FailedStatuses}

\* this step is a step of handleSendMessage that took branch b
AskStep(b) == last' = Step("handleSendMessage", b)

\* this step ends a run of handleSendMessage that had sent its request
AskEnds ==
  /\ askPc # "idle"
  /\ last'.op = "handleSendMessage"
  /\ last'.branch \notin {"rejected", "response"}

(* C18: a step that leaves a history localStorage has no room for (the    *)
(* write of its save throws) has the outcome its handler gives it: every  *)
(* error entry of the history is one a handler built for a failure of its *)
(* own; a clear leaves the empty history and the flags as they were; an   *)
(* accepted ask has appended the user entry and goes on to its call; an   *)
(* ask that ends has appended its one follow-up entry and is Idle; a tour *)
(* round has appended its one bot entry and the tour goes on; a tour that *)
(* has played is Idle with the typing indicator off.                      *)
C18_SaveFailureIsSilent ==
  [][~Fits(messages') =>
       /\ \A i \in 1..Len(messages') :
            messages'[i].type = "error" =>
              messages'[i].text \in {Str(t) : t \in HandlerErrors}
       /\ last'.op = "handleClearHistory" =>
            /\ messages' = <<>>
            /\ UNCHANGED <<isLoading, isBotTyping, isTouring>>
       /\ AskStep("fetch") =>
            /\ messages' = Append(messages, Entry("user", Str(trim(input))))
            /\ isLoading' /\ isBotTyping'
            /\ askPc' = "fetch"
            /\ askRequest' # NoRequest
       /\ AskEnds =>
            /\ Len(messages') = Len(messages) + 1
            /\ FollowUp(messages'[Len(messages')])
            /\ Idle' /\ ~isBotTyping'
            /\ askPc' = "idle"
       /\ TourStep("fetch") =>
            /\ messages' = <<>>
            /\ isTouring' /\ isBotTyping'
            /\ tourPc' = "fetch"
       /\ TourStep("delay") =>
            /\ Len(messages') = Len(messages) + 1
            /\ messages'[Len(messages')].type = "bot"
            /\ isTouring' /\ isBotTyping'
            /\ tourPc' = "delay"
       /\ TourStep("played") =>
            /\ messages' = messages
            /\ Idle' /\ ~isBotTyping'
    ]_vars

\* a first question was asked and answered in a session none of whose
\* saves could be written
C18_Witness ==
  /\ quota = -1
  /\ localStorage = Missing
  /\ last = Step("handleSendMessage", "answered")
  /\ messages = <<Entry("user", Str("hi")), Entry("bot", Str("A block is..."))>>
  /\ Idle
  /\ ~isBotTyping

(* C19: a clear leaves the empty history, whatever the history was, and   *)
(* the durable copy is the serialized empty history if it can be written; *)
(* a session constructed over the serialized empty history has the empty  *)
(* history, its initializer has removed nothing, and the key still holds *)
(* that value.                                                            *)
C19_ClearRoundTrip ==
  [][ /\ last'.op = "handleClearHistory" =>
           /\ messages' = <<>>
           /\ Fits(<<>>) => localStorage' = Stringify(<<>>)
      /\ (last'.op = "App" /\ localStorage = Stringify(<<>>)) =>
           /\ last'.branch = "array"
           /\ messages' = <<>>
           /\ LoadMessages(localStorage)[2] = localStorage
           /\ localStorage' = Stringify(<<>>)
    ]_vars

\* a new session opened right after a clear whose save was written
C19_Witness ==
  /\ last = Mounted("array", "handleClearHistory")
  /\ messages = <<>>
  /\ localStorage = Stringify(<<>>)
  /\ quota >= 0

\* e.text, read from an entry that may lack the property
TextOf(e) == IF "text" \in DOMAIN e THEN e.text ELSE Undefined

\* the histories a and b agree entry for entry in kind and text
SameEntries(a, b) ==
  /\ Len(a) = Len(b)
  /\ \A i \in 1..Len(a) : a[i].type = b[i].type /\ TextOf(a[i]) = TextOf(b[i])

(* C20: a session constructed while the durable copy is the serialized    *)
(* history of the session before has that history, entry for entry with   *)
(* the same kind and the same text (an entry whose text is undefined      *)
(* comes back without the property, which reads as undefined).            *)
C20_HistorySurvivesReload ==
  [][(last'.op = "App" /\ localStorage = Stringify(messages)) =>
       /\ last'.branch = "array"
       /\ SameEntries(messages', messages)
    ]_vars

\* a new session over a saved dialogue whose bot entry came from a
\* response without an answer field
C20_Witness ==
  /\ JustMounted
  /\ last.after = "handleSendMessage"
  /\ Len(messages) = 2
  /\ messages[1] = Entry("user", Str("hi"))
  /\ messages[2] = [type |-> "bot"]
  /\ localStorage = Stringify(messages)

----------------------------------------------------------------------------
(* The history as a log *)

\* this step replaces the history: Clear History, or the start of a tour
Clears ==
  \/ last'.op = "handleClearHistory"
  \/ TourStep("fetch")
  \/ TourStep("not configured")

(* C21: a step of the session that is not a clear nor the start of a tour *)
(* leaves the history it found as a prefix of the new one and appends at  *)
(* most the entries of one synchronous stretch: one entry, or two when    *)
(* the stretch is an ask on an unconfigured build (user, error) or a tour *)
(* round on a null element (bot, error). A clear leaves the empty         *)
(* history; the start of a tour leaves the empty history, or the single   *)
(* "not configured" entry appended to it.                                 *)
C21_AppendOrClear ==
  [][last'.op # "App" =>
       IF Clears
         THEN \/ messages' = <<>>
              \/ /\ TourStep("not configured")
                 /\ messages' = <<TourFailed("API URL is not configured for tour.")>>
         ELSE /\ IsPrefix(messages, messages')
              /\ Len(messages') <= Len(messages) + 2
              /\ Len(messages') = Len(messages) + 2 =>
                    \/ AskStep("not configured")
                    \/ TourStep("element null")
    ]_vars

\* a second question was asked and answered: the dialogue before it is
\* still there, in front of the two new entries
C21_Witness ==
  /\ last = Step("handleSendMessage", "answered")
  /\ Len(h0) = 2
  /\ Len(messages) = 4
  /\ SubSeq(messages, 1, 2) = h0
  /\ messages[3] = userEntry
  /\ messages[4].type = "bot"

\* SessionMode of the specification, as a value
Mode ==
  IF isLoading THEN "Answering" ELSE IF isTouring THEN "Touring" ELSE "Idle"

\* this step ends a run of handleStartTour that had sent its request
TourEnds ==
  /\ tourPc # "idle"
  /\ tourPc' = "idle"
  /\ last'.op = "handleStartTour"

(* C22: a step of the session changes the mode only from Idle to          *)
(* Answering when an ask goes on to its call, from Answering to Idle when *)
(* that ask ends, from Idle to Touring when a tour goes on to its call,   *)
(* and from Touring to Idle when that tour ends.                          *)
C22_ModeEdges ==
  [][last'.op # "App" =>
       \/ Mode' = Mode
       \/ Mode = "Idle" /\ Mode' = "Answering" /\ AskStep("fetch")
       \/ Mode = "Answering" /\ Mode' = "Idle" /\ AskEnds
       \/ Mode = "Idle" /\ Mode' = "Touring" /\ TourStep("fetch")
       \/ Mode = "Touring" /\ Mode' = "Idle" /\ TourEnds
    ]_vars

\* a tour was asked for while an ask held its response: the mode is still
\* Answering
C22_Witness ==
  /\ Mode = "Answering"
  /\ askPc = "json"
  /\ ~isBotTyping
  /\ last = Step("handleStartTour", "rejected")

\* this step leaves the call of handleSendMessage, resp. handleStartTour,
\* as pending as it found it
AskCallPending == askPc = "fetch" /\ askPc' = "fetch"

TourCallPending == tourPc = "fetch" /\ tourPc' = "fetch"

\* this step is a handler invocation that was rejected and changed nothing
RejectedStep ==
  /\ last'.op \in {"handleSendMessage", "handleStartTour"}
  /\ last'.branch = "rejected"
  /\ UNCHANGED <<messages, input, isLoading, isBotTyping, isTouring, localStorage,
                 askVars, tourVars>>

(* C23: while the call of an ask, or of a tour, has not settled, the mode *)
(* is not Idle, and the only steps the session takes (short of the call   *)
(* settling) are rejected invocations of handleSendMessage and            *)
(* handleStartTour: no clear, no input, no timeout.                       *)
C23_PendingCallBlocksSession ==
  [][ /\ AskCallPending => isLoading /\ isLoading' /\ RejectedStep
      /\ TourCallPending => isTouring /\ isTouring' /\ RejectedStep
    ]_vars

\* a question was typed before a tour started, and submitted while the
\* call of the tour is pending: rejected, the tour still waits
C23_Witness ==
  /\ tourPc = "fetch"
  /\ isTouring
  /\ trim(input) # ""
  /\ last = Step("handleSendMessage", "rejected")

----------------------------------------------------------------------------
(* Two sessions *)

\* this step is a step of the second session
OtherTabStep == last'.op = "otherTab"

(* C24: with two sessions on one key, a step changes the stored value     *)
(* only by writing the whole history of the session that took the step,   *)
(* and leaves the history of the other session as it was; a step that     *)
(* changes its session's history to one the storage has room for writes   *)
(* it, whatever the other session had stored.                             *)
C24_LastWriteWins ==
  [][ /\ \/ localStorage' = localStorage
         \/ /\ OtherTabStep
            /\ localStorage' = Stringify(otherTab')
         \/ /\ ~OtherTabStep
            /\ localStorage' = Stringify(messages')
      /\ OtherTabStep => messages' = messages
      /\ ~OtherTabStep => otherTab' = otherTab
      /\ (OtherTabStep /\ Fits(otherTab')) => localStorage' = Stringify(otherTab')
      /\ (~OtherTabStep /\ messages' # messages /\ Fits(messages')) =>
           localStorage' = Stringify(messages')
    ]_vars

\* the second session had saved an entry of its own; then this session
\* was asked a question and answered, and its save replaced the stored
\* value: the entry of the second session is not in storage any more
C24_Witness ==
  /\ quota = 100
  /\ last = Step("handleSendMessage", "answered")
  /\ otherTab # <<>>
  /\ otherTab[Len(otherTab)] \in OtherEntries
  /\ localStorage = Stringify(messages)
  /\ \A i \in 1..Len(messages) : messages[i] \notin OtherEntries

----------------------------------------------------------------------------
(* The typing indicator *)

(* C25: while the call of an ask is in flight the typing indicator is on; *)
(* once the call has settled with a response, and the handler reads its   *)
(* body, the indicator is off; and it is off whenever the last step ended *)
(* an ask, on the answer and on every failure branch.                     *)
C25_TypingFollowsTheCall ==
  /\ askPc = "fetch" => isBotTyping /\ askRequest # NoRequest
  /\ askPc \in {"json", "errjson"} => ~isBotTyping /\ askRequest = NoRequest
  /\ AskFinished => ~isBotTyping

\* the call of an ask has settled with a failure status and the handler
\* reads the error body: still Answering, the indicator already off
C25_Witness ==
  /\ askPc = "errjson"
  /\ isLoading
  /\ ~isBotTyping
  /\ last = Step("handleSendMessage", "response")

(* C26: in src/src/App.jsx, whenever the last step ended an ask and the   *)
(* mode is back to Idle, the typing indicator is off.                     *)
C26_AppJsxTypingOffWhenIdle ==
  (AskFinished /\ ~isLoading) => ~isBotTyping

\* the script element whose entry is the last of the history
Playing == tourScript[Len(messages)]

(* C27: while the tour waits in a delay, the typing indicator is on, the  *)
(* last entry of the history is the bot entry of the element being        *)
(* played, and the one pending delay is that element's: 40 ms per         *)
(* character plus 1000 ms. No delay is pending in any other state. While  *)
(* the tour holds its response, and once it has played, the indicator is  *)
(* off.                                                                   *)
C27_OneDelayPerEntry ==
  /\ tourPc = "delay" =>
       /\ isBotTyping
       /\ Len(messages) \in 1..Len(tourScript)
       /\ LastMessage = Entry("bot", Playing)
       /\ timer = Len(Playing.v) * 40 + 1000
  /\ tourPc # "delay" => timer = 0
  /\ tourPc \in {"json", "errjson"} => isTouring /\ ~isBotTyping
  /\ last = Step("handleStartTour", "played") => ~isBotTyping /\ ~isTouring

\* the first entry of the script ["Hi", "Welcome"] is on display and its
\* delay of 1080 ms is pending
C27_Witness ==
  /\ tourPc = "delay"
  /\ isBotTyping
  /\ timer = 1080
  /\ messages = <<Entry("bot", Str("Hi"))>>
  /\ tourMessages = <<Str("Welcome")>>

----------------------------------------------------------------------------
(* The request of an ask *)

(* C28: the request an accepted ask sends is a POST to the /ask endpoint  *)
(* whose question is the trimmed input and whose history is, entry for    *)
(* entry in kind and text, the history at that moment followed by the     *)
(* user entry of this question; while the call is pending the request is  *)
(* that one and the history of the session is the one it carries.         *)
C28_RequestCarriesHistory ==
  [][ /\ AskStep("fetch") =>
           LET q == trim(input)
               sent == askRequest'.body.history
           IN /\ askRequest'.method = "POST"
              /\ askRequest'.url = Plus(VITE_API_URL, "/ask")
              /\ askRequest'.body.question = q
              /\ Len(sent) = Len(messages) + 1
              /\ SameEntries(SubSeq(sent, 1, Len(messages)), messages)
              /\ sent[Len(sent)] = Entry("user", Str(q))
      /\ askPc' = "fetch" =>
           /\ askRequest'.body.question = userQuestion'
           /\ SameEntries(askRequest'.body.history, Append(h0', userEntry'))
           /\ messages' = Append(h0', userEntry')
    ]_vars

\* a second question, "Why?", is on its way with the dialogue before it
C28_Witness ==
  /\ askPc = "fetch"
  /\ Len(h0) = 2
  /\ askRequest.body.question = "Why?"
  /\ Len(askRequest.body.history) = 3
  /\ askRequest.body.history[3] = Entry("user", Str("Why?"))

----------------------------------------------------------------------------
(* The question of an ask *)

\* the positions of the input that hold something else than white space
Inked == {i \in 1..Len(input) : input[i] \notin WhiteSpace}

\* the input from its first to its last such position
Trimmed ==
  LET first == CHOOSE i \in Inked : \A j \in Inked : i <= j
      final == CHOOSE i \in Inked : \A j \in Inked : j <= i
  IN Join(SubSeq(input, first, final))

(* C29: an ask whose input is empty or white space only changes nothing,  *)
(* in Idle mode as in any other: no entry, no request, the same mode and  *)
(* typing indicator, the same stored history; an ask that is accepted     *)
(* appends a user entry whose text is the input without the white space   *)
(* around it.                                                             *)
C29_BlankAskIsNoOp ==
  [][ /\ (Invoked("handleSendMessage") /\ Inked = {}) =>
           /\ AskStep("rejected")
           /\ UNCHANGED <<messages, input, isLoading, isBotTyping, isTouring,
                          localStorage, askVars, tourVars>>
           /\ Mode' = Mode
      /\ (Invoked("handleSendMessage") /\ ~AskStep("rejected")) =>
           /\ Inked # {}
           /\ Len(messages') > Len(messages)
           /\ messages'[Len(messages) + 1] = Entry("user", Str(Trimmed))
    ]_vars

\* white space was submitted in Idle mode, with a dialogue on the screen
C29_Witness ==
  /\ last = Step("handleSendMessage", "rejected")
  /\ Idle
  /\ input = <<" ", "\t">>
  /\ Len(messages) = 2
  /\ askPc = "idle"

----------------------------------------------------------------------------
(* The first revision of App (src/unnamed/part_001 lines 6-75, and again  *)
(* src/unnamed/part_000 lines 608-683): its state is messages, input and  *)
(* isLoading; every failure of an ask is thrown into one catch block.     *)

absentRev1 == <<isBotTyping, absent>>

InitRev1 == InitAppJsx

\* the input is disabled while isLoading
Rev1_handleInputChange(value) ==
  /\ ~isLoading
  /\ input' = value
  /\ h0' = <<>>
  /\ userQuestion' = ""
  /\ last' = Step("handleInputChange", "set")
  /\ UNCHANGED <<messages, isLoading, askVars, absentRev1>>

\* catch (error) { ... } finally { setIsLoading(false) }
Rev1_Catch(message, branch) ==
  /\ messages' = Append(messages, Entry("bot", Str("Error: " \o message)))
  /\ isLoading' = FALSE
  /\ last' = Step("handleSendMessage", branch)

\* the synchronous part: from the submit event to the first await
Rev1_handleSendMessage ==
  LET question == trim(input)
      userMessage == Entry("user", Str(question))
      apiUrl == Plus(VITE_API_URL, "/ask")
  IN
  IF question = "" \/ isLoading
    THEN /\ last' = Step("handleSendMessage", "rejected")
         /\ UNCHANGED <<messages, input, isLoading, askVars, h0, userQuestion,
                        absentRev1>>
    ELSE /\ Len(messages) + 2 <= MaxMessages
         /\ input' = <<>>
         /\ h0' = messages
         /\ userQuestion' = question
         /\ IF NotConfigured(apiUrl, "/ask")
              THEN /\ messages' = messages \o
                        <<userMessage,
                          Entry("bot", Str("Error: " \o "API URL is not configured."))>>
                   /\ isLoading' = FALSE
                   /\ last' = Step("handleSendMessage", "not configured")
                   /\ UNCHANGED askVars
              ELSE /\ messages' = Append(messages, userMessage)
                   /\ isLoading' = TRUE
                   /\ askRequest' = AskRequest(apiUrl, question, Append(messages, userMessage))
                   /\ askPc' = "fetch"
                   /\ last' = Step("handleSendMessage", "fetch")
                   /\ UNCHANGED askResponse
         /\ UNCHANGED absentRev1

\* await fetch(...) settles
Rev1_FetchSettles ==
  /\ askPc = "fetch"
  /\ askRequest' = NoRequest
  /\ \/ \E message \in TransportErrors :
          /\ Rev1_Catch(message, "transport failure")
          /\ askPc' = "idle"
          /\ UNCHANGED askResponse
     \/ \E r \in AskResponses :
          /\ askResponse' = r
          /\ askPc' = IF r.ok THEN "json" ELSE "errjson"
          /\ last' = Step("handleSendMessage", "response")
          /\ UNCHANGED <<messages, isLoading>>
  /\ UNCHANGED <<input, h0, userQuestion, absentRev1>>

\* `HTTP error! status: ${response.status}, message: ${errorData.error ||
\* response.statusText}`
Rev1_HttpErrorMsg(r) ==
  "HTTP error! status: " \o ToString(r.status) \o ", message: "
    \o ToStr(OrElse(Get(r.body, "error"), Str(r.statusText)))

\* the !response.ok branch, after its await: the body is parsed without a
\* handler of its own, and the Error built from it is thrown
Rev1_ErrorBodySettles ==
  /\ askPc = "errjson"
  /\ LET errorData == askResponse.body IN
       IF errorData.k = "unparseable"
         THEN Rev1_Catch(errorData.message, "error body unparseable")
         ELSE IF Throws(errorData)
           THEN Rev1_Catch(TypeErrorMessage("error"), "error body null")
           ELSE Rev1_Catch(Rev1_HttpErrorMsg(askResponse), "http failure")
  /\ askPc' = "idle"
  /\ askResponse' = NoResponse
  /\ UNCHANGED <<input, askRequest, h0, userQuestion, absentRev1>>

\* const data = await response.json(), and the rest of the try block
Rev1_BodySettles ==
  /\ askPc = "json"
  /\ LET data == askResponse.body IN
       IF data.k = "unparseable"
         THEN Rev1_Catch(data.message, "body unparseable")
         ELSE IF Throws(data)
           THEN Rev1_Catch(TypeErrorMessage("answer"), "body null")
           ELSE /\ messages' = Append(messages, Entry("bot", Get(data, "answer")))
                /\ isLoading' = FALSE
                /\ last' = Step("handleSendMessage", "answered")
  /\ askPc' = "idle"
  /\ askResponse' = NoResponse
  /\ UNCHANGED <<input, askRequest, h0, userQuestion, absentRev1>>

NextRev1 ==
  \/ \E value \in Questions : Rev1_handleInputChange(value)
  \/ Rev1_handleSendMessage
  \/ Rev1_FetchSettles
  \/ Rev1_ErrorBodySettles
  \/ Rev1_BodySettles

SpecRev1 == InitRev1 /\ [][NextRev1]_vars

\* the branches of an ask that did not reach an answer because the
\* endpoint is not configured, the call failed or the status was not ok
AskFailures == {"not configured", "transport failure", "http failure"}

(* C30: after an ask that failed because the endpoint is not configured,  *)
(* because the call itself failed or because the status was not ok, the   *)
(* entry that follows the question has kind error.                        *)
C30_FailureEntryIsError ==
  (last.op = "handleSendMessage" /\ last.branch \in AskFailures) =>
    /\ Len(messages) >= 2
    /\ messages[Len(messages) - 1] = userEntry
    /\ LastMessage.type = "error"

----------------------------------------------------------------------------
(* The typing indicator and the mode *)

(* C31: in every state between two steps of the handlers, the typing      *)
(* indicator is on only while an ask or a tour is running (isBotTyping    *)
(* implies isLoading or isTouring); hence the guard of handleStartTour,   *)
(* which also tests isBotTyping, rejects exactly when the mode is not     *)
(* Idle.                                                                  *)
C31_TypingImpliesBusy ==
  /\ isBotTyping => (isLoading \/ isTouring)
  /\ TourRejected <=> ~Idle

\* the indicator is on while the answer to a second question is awaited
C31_Witness ==
  /\ isBotTyping /\ isLoading /\ ~isTouring
  /\ askPc = "fetch"
  /\ Len(messages) = 3
  /\ TourRejected

----------------------------------------------------------------------------
(* Clear History and the running handlers *)

(* C32: Clear History acts only in Idle mode, with no ask and no tour      *)
(* between two of their steps; and when an ask has finished, the last two *)
(* entries of the history are its user entry and, right after it, its     *)
(* follow-up of kind bot or error.                                        *)
C32_ClearOnlyWhenIdle ==
  /\ [][last'.op = "handleClearHistory" =>
          /\ Mode = "Idle" /\ Mode' = "Idle"
          /\ askPc = "idle" /\ tourPc = "idle"
          /\ messages' = <<>>]_vars
  /\ [](AskFinished =>
          /\ Len(messages) >= 2
          /\ messages[Len(messages) - 1] = userEntry
          /\ FollowUp(LastMessage)
          /\ LastMessage # userEntry)

\* the history was cleared in Idle mode, a question already typed
C32_Witness ==
  /\ last = Step("handleClearHistory", "cleared")
  /\ Mode = "Idle"
  /\ messages = <<>>
  /\ trim(input) = "Why?"
  /\ localStorage = Item(Arr(<<>>))

----------------------------------------------------------------------------
(* A script with an element that is not a string *)

\* the positions of a script whose element has no length to read
Unreadable(script) == {i \in 1..Len(script) : Throws(script[i])}

\* the first of them
FirstUnreadable(script) ==
  CHOOSE k \in Unreadable(script) : \A j \in Unreadable(script) : k <= j

(* C33: a script is played without a test of its elements. When playback  *)
(* comes to its first element that is null, at position k, the handler    *)
(* ends in that step: the history is the bot entries of elements 1..k     *)
(* (the k-th with the null text) followed by exactly one entry of kind     *)
(* error; the elements after k are dropped; the mode is Idle, the typing  *)
(* indicator off, no delay pending. Up to k the script plays as any other.*)
C33_NullElementEndsPlayback ==
  [][ /\ TourStep("element null") =>
           LET script == tourScript'
               k == FirstUnreadable(script)
           IN /\ Unreadable(script) # {}
              /\ Len(messages') = k + 1
              /\ SubSeq(messages', 1, k) = Bots(SubSeq(script, 1, k))
              /\ messages'[k + 1].type = "error"
              /\ \A i \in 1..k : messages'[i].type = "bot"
              /\ Idle' /\ ~isBotTyping'
              /\ tourPc' = "idle" /\ tourMessages' = <<>> /\ timer' = 0
      /\ (tourPc = "delay" /\ tourMessages # <<>> /\ Throws(Head(tourMessages))
            /\ last'.op = "handleStartTour" /\ last'.branch # "rejected") =>
           /\ TourStep("element null")
           /\ Len(messages) = FirstUnreadable(tourScript) - 1
    ]_vars

\* the script ["Hi", null, "Welcome"] has ended at its second element
C33_Witness ==
  /\ last = Step("handleStartTour", "element null")
  /\ tourScript = <<Str("Hi"), Null, Str("Welcome")>>
  /\ Len(messages) = 3
  /\ messages[1] = Entry("bot", Str("Hi"))
  /\ messages[2] = Entry("bot", Null)
  /\ messages[3].type = "error"
  /\ Idle /\ ~isBotTyping

----------------------------------------------------------------------------
(* A tour that does not come to play *)

\* the branches in which handleStartTour returns before the first round
TourAborts ==
  {"not configured", "transport failure", "http failure", "error body null",
   "body unparseable", "body null", "not an array"}

\* the last step ended a tour before the first round
TourAborted == last.op = "handleStartTour" /\ last.branch \in TourAborts

----------------------------------------------------------------------------
(* The save at session start *)

\* the initializer found no history it could use: no key, or a value it
\* removed
FoundNothing == last.branch = "missing" \/ FoundCorrupt

(* C35, as stated: a session just constructed over a missing key or over  *)
(* a corrupt value holds the serialized empty history under the key; one  *)
(* constructed over a stored array holds that array.                      *)
C35_SavedAtStart_Original ==
  JustMounted =>
    /\ FoundNothing => localStorage = Stringify(<<>>)
    /\ last.branch = "array" => Durable = messages

(* C35, amended: the save effect runs once when the session is            *)
(* constructed, with the hydrated history. If localStorage has room for   *)
(* it, the key then holds the serialized history: the serialized empty    *)
(* history after a missing key or a removed corrupt value, the array that *)
(* was stored after a stored array. If the write fails, the key is left   *)
(* as the initializer left it: missing, or the array that was stored.     *)
C35_SavedAtStart ==
  JustMounted =>
    /\ Fits(messages) => localStorage = Stringify(messages)
    /\ FoundNothing =>
         /\ messages = <<>>
         /\ localStorage = (IF Fits(<<>>) THEN Stringify(<<>>) ELSE Missing)
    /\ last.branch = "array" => Durable = messages

\* a first session, on a storage without the key: the key now holds the
\* empty history
C35_Witness ==
  /\ last = Mounted("missing", "none")
  /\ Fits(<<>>)
  /\ messages = <<>>
  /\ localStorage = Stringify(<<>>)

----------------------------------------------------------------------------
(* The initializer over any stored array. The elements of a stored array  *)
(* are whatever JSON holds: an entry, an object without a text or without *)
(* a type, a string. (An element null is left out: the initializer takes  *)
(* it like the others, but the first render of such a history throws.)    *)

StoredArrays ==
  {<<[type |-> "bot"]>>,
   <<[text |-> Str("no type")]>>,
   <<Str("hi")>>,
   <<Entry("user", Str("hi")), Str("hi"), [type |-> "bot"]>>}

StoredValues == InitialStorage \cup {Item(Arr(a)) : a \in StoredArrays}

\* one session after the other on a storage that holds any of these
InitLoad ==
  /\ Start(Quotas, BaseUrls, StoredValues)
  /\ otherTab = <<>>

NextLoad ==
  \/ App
  \/ \E value \in Questions : handleInputChange(value)
  \/ handleClearHistory

SpecLoad == InitLoad /\ [][NextLoad]_vars

\* an element that is not an entry with a type and a text
Shapeless(e) == ~({"type", "text"} \subseteq DOMAIN e)

(* C36: the initializer tests only that the stored value is an array. A   *)
(* session constructed over a stored array, whatever its elements, has    *)
(* that array as its history, element for element, and the key still      *)
(* holds it: nothing is removed.                                          *)
C36_AnyArrayIsHydrated ==
  /\ [](JustMounted /\ last.branch = "array" =>
          localStorage = Item(Arr(messages)))
  /\ [][(last'.op = "App" /\ LoadCase(localStorage) = "array") =>
          /\ last'.branch = "array"
          /\ messages' = localStorage.json.v
          /\ LoadMessages(localStorage)[2] = localStorage
          /\ localStorage' = localStorage]_vars

\* the page was opened again over a stored array of an entry, a string
\* and an object without a text: the history is that array
C36_Witness ==
  /\ last = Mounted("array", "App")
  /\ Len(messages) = 3
  /\ Shapeless(messages[2]) /\ Shapeless(messages[3])
  /\ messages = <<Entry("user", Str("hi")), Str("hi"), [type |-> "bot"]>>
  /\ localStorage = Item(Arr(messages))

----------------------------------------------------------------------------
(* The storage is read at construction only *)

\* the history holds an entry written by the second session
HasOther(msgs) == \E i \in 1..Len(msgs) : msgs[i] \in OtherEntries

\* this step is a step of a handler of this session
SessionStep == ~OtherTabStep /\ last'.op # "App"

(* C37: the key is read by the initializer only. A write of the second    *)
(* session changes nothing in this session: not its history, not its      *)
(* input, flags or pending calls. No step of a handler of this session    *)
(* brings an entry of the second session into the history, whatever the   *)
(* key holds; such an entry comes in only when the page is opened again.  *)
(* And a step of a handler that changes the history writes that history   *)
(* over what the second session had stored.                               *)
C37_StorageReadOnlyAtStart ==
  [][ /\ OtherTabStep => UNCHANGED sessionVars
      /\ (SessionStep /\ HasOther(messages')) => HasOther(messages)
      /\ (HasOther(messages') /\ ~HasOther(messages)) =>
           /\ last'.op = "App"
           /\ messages' = LoadMessages(localStorage)[1]
      /\ (SessionStep /\ messages' # messages /\ HasOther(Durable)
            /\ ~HasOther(messages')) =>
           /\ localStorage' = Stringify(messages')
           /\ ~HasOther(LoadMessages(localStorage')[1])
    ]_vars

\* the second session has just stored an entry on top of the dialogue
\* both sessions started from; this session still shows the dialogue
C37_Witness ==
  /\ last = Step("otherTab", "appended")
  /\ localStorage = Stringify(otherTab)
  /\ HasOther(Durable)
  /\ Len(messages) = 2
  /\ ~HasOther(messages)
  /\ Idle

----------------------------------------------------------------------------
(* One handler at a time *)

\* what the session is waiting for: the calls in flight, the bodies being
\* read, the delay of the tour
Outstanding ==
  {h \in {"ask", "tour"} :
     IF h = "ask" THEN askPc # "idle" ELSE tourPc # "idle"}

----------------------------------------------------------------------------
(* Progress. A call that is in flight settles, a body that is being read  *)
(* is read or fails, a delay resolves: each of these steps, once enabled, *)
(* stays enabled until it is taken or the page is opened again, so weak   *)
(* fairness is what the assumption asks for. Nothing is assumed of the    *)
(* user.                                                                  *)

Settles ==
  /\ WF_vars(AskFetchSettles)
  /\ WF_vars(AskErrorBodySettles)
  /\ WF_vars(AskBodySettles)
  /\ WF_vars(TourFetchSettles)
  /\ WF_vars(TourErrorBodySettles)
  /\ WF_vars(TourBodySettles)
  /\ WF_vars(TourDelaySettles)

SpecLive == Init /\ [][Next]_vars /\ Settles

\* nothing runs and nothing is shown as running
Quiet == Idle /\ ~isBotTyping /\ askPc = "idle" /\ tourPc = "idle"

(* C39: if every call settles and every delay resolves, then from every   *)
(* state the session reaches it comes back to Idle mode with the typing   *)
(* indicator off and nothing outstanding, whatever the answers and the    *)
(* script of the tour are.                                                *)
C39_AlwaysBackToIdle == []<>Quiet

\* the script ["Hi", "Welcome"] has played to its end after an answered
\* question was on the screen: the session is quiet again
C39_Witness ==
  /\ last = Step("handleStartTour", "played")
  /\ Len(tourScript) = 2
  /\ Quiet
  /\ quota = 100
  /\ trim(input) = "Why?"

====
